---- MODULE Spec2Model ----
(***************************************************************************)
(* Dynamic path-planning simulation of lzx-sdu/autopath                    *)
(* (src/pages/Simulation.tsx, grid generator in src/components/Sidebar.tsx)*)
(*                                                                         *)
(* Units.  The code computes with IEEE doubles; the model computes with    *)
(* integers in fixed units, chosen so that every constant of the code is   *)
(* an integer:                                                             *)
(*   time       1/1000 minute  (0.5 min = 500, 0.15 min = 150, 0.02 = 20)  *)
(*   length     1/100 km       (kmDist has two decimals: toFixed(2))       *)
(*   speed      km/h           (the environment stores Math.floor(speed))  *)
(*   position   1/2 pixel      (the grid spacing is 87.5 x 62.5 pixels)    *)
(*   progress   1/ProgScale of an edge                                     *)
(*   distance   1/200 km       (one move tick adds speed * 0.005 km)       *)
(* A quotient that is not an integer in these units is rounded down.       *)
(***************************************************************************)
EXTENDS Integers, Sequences, FiniteSets, TLC

VARIABLES
    edges,                \* Edge[]  : sequence of edge records (array order)
    nodes,                \* Node[]  : id -> [x, y, lightStatus]
    startNode, endNode,   \* requested start / end node id
    selectionMode,        \* "start" | "end" | "null"
    isPlaying,
    carNodeIndex,
    progressBetweenNodes,
    isWaitingForLight,
    currentPath,          \* committed path, sequence of node ids
    estimatedTime,
    penaltyWeight,
    logs,                 \* decision log, most recent first
    metrics,              \* [totalTime, pathChanges, distanceTraveled]
    pending,              \* the planning effect is scheduled (a dependency changed)
    planResult,           \* value returned by the planner call under test (SpecPlan)
    envTicks,             \* environment ticks so far (bounded by MaxEnvTicks)
    userOps               \* user interface events so far (bounded by MaxUserOps)

vars == <<edges, nodes, startNode, endNode, selectionMode, isPlaying,
          carNodeIndex, progressBetweenNodes, isWaitingForLight, currentPath,
          estimatedTime, penaltyWeight, logs, metrics, pending, planResult,
          envTicks, userOps>>

-----------------------------------------------------------------------------
(* Generic helpers *)

Max(a, b) == IF a >= b THEN a ELSE b
Min(a, b) == IF a <= b THEN a ELSE b
Abs(a) == IF a < 0 THEN -a ELSE a

\* Array.prototype.slice(from, to) with 0-based from (inclusive), to (exclusive)
Slice(s, from, to) == SubSeq(s, Min(from, Len(s)) + 1, Min(to, Len(s)))

\* membership in an array
InSeq(x, s) == \E i \in 1..Len(s) : s[i] = x

-----------------------------------------------------------------------------
(* ALGORITHM 1: findBestPath (improved A-star) *)

Infinity == 1000000000
NULL == [path |-> <<>>, time |-> -1]        \* the null result ("Unreachable")

RED_LIGHT_PENALTY == 500                    \* 0.5 min
TURN_PENALTY == 150                         \* 0.15 min
HIGHWAY_LIMIT == 60

\* heuristic(id): Manhattan pixel distance / 100, in minutes
heuristic(id, endId, nds) ==
    IF id \notin DOMAIN nds \/ endId \notin DOMAIN nds THEN 0
    ELSE (Abs(nds[id].x - nds[endId].x) + Abs(nds[id].y - nds[endId].y)) * 5

getDirection(fromId, toId, nds) ==
    IF fromId \notin DOMAIN nds \/ toId \notin DOMAIN nds THEN "none"
    ELSE IF Abs(nds[fromId].x - nds[toId].x) > Abs(nds[fromId].y - nds[toId].y)
         THEN "horizontal" ELSE "vertical"

\* A. base travel time = length / max(0.1, speed) * 60 minutes
baseTime(edge) == (edge.length * 6000) \div Max(1, edge.currentSpeed * 10)

lightPenalty(neighborId, nds) ==
    IF neighborId \in DOMAIN nds /\ nds[neighborId].lightStatus = "red"
    THEN RED_LIGHT_PENALTY ELSE 0

\* C. turn penalty: prevId is cameFrom[current] (0 when current has no entry)
turnPenalty(prevId, current, neighborId, nds) ==
    IF prevId # 0 /\ getDirection(prevId, current, nds) # getDirection(current, neighborId, nds)
    THEN TURN_PENALTY ELSE 0

\* D. (x) * roadLevelFactor, roadLevelFactor = limit >= 60 ? 1.0 : 1.2
roadLevelScaled(x, edge) == IF edge.limit >= HIGHWAY_LIMIT THEN x ELSE (x * 12) \div 10

\* cost of entering neighborId from current over edge, current entered from prevId
edgeCost(edge, prevId, current, neighborId, nds) ==
    roadLevelScaled(baseTime(edge) + lightPenalty(neighborId, nds)
                    + turnPenalty(prevId, current, neighborId, nds), edge)

\* the reduce with <= in place of <: of equal f-scores the earlier element is kept
RECURSIVE reduceMinFirst(_, _, _)
reduceMinFirst(a, rest, fScore) ==
    IF rest = <<>> THEN a
    ELSE reduceMinFirst(IF fScore[a] <= fScore[Head(rest)] THEN a ELSE Head(rest),
                        Tail(rest), fScore)

\* Array.from(openSet).reduce((a, b) => fScore[a] < fScore[b] ? a : b)
RECURSIVE reduceMin(_, _, _)
reduceMin(a, rest, fScore) ==
    IF rest = <<>> THEN a
    ELSE reduceMin(IF fScore[a] < fScore[Head(rest)] THEN a ELSE Head(rest),
                   Tail(rest), fScore)

\* lowestF that takes the oldest open node whatever its fScore
lowestFOldest(openSet, fScore) == Head(openSet)

lowestF(openSet, fScore) == reduceMin(Head(openSet), Tail(openSet), fScore)

\* openSet.add: a Set keeps insertion order and ignores a member it already has
openAdd(openSet, id) == IF InSeq(id, openSet) THEN openSet ELSE Append(openSet, id)
openDelete(openSet, id) == SelectSeq(openSet, LAMBDA x : x # id)

\* reconstruct with push in place of unshift: the path comes out goal first
RECURSIVE reconstructPushed(_, _, _)
reconstructPushed(current, cameFrom, totalPath) ==
    IF cameFrom[current] = 0 THEN totalPath
    ELSE reconstructPushed(cameFrom[current], cameFrom, Append(totalPath, cameFrom[current]))

\* reconstruct that stops one step early and leaves the start node out
RECURSIVE reconstructShort(_, _, _)
reconstructShort(current, cameFrom, totalPath) ==
    IF cameFrom[current] = 0 \/ cameFrom[cameFrom[current]] = 0 THEN totalPath
    ELSE reconstructShort(cameFrom[current], cameFrom, <<cameFrom[current]>> \o totalPath)

\* while (current in cameFrom) { current = cameFrom[current]; totalPath.unshift(current) }
RECURSIVE reconstruct(_, _, _)
reconstruct(current, cameFrom, totalPath) ==
    IF cameFrom[current] = 0 THEN totalPath
    ELSE reconstruct(cameFrom[current], cameFrom, <<cameFrom[current]>> \o totalPath)

\* relaxEdge whose tentative score leaves the turn penalty out
relaxEdgeNoTurn(st, edge, current, endId, nds) ==
    LET neighborId == IF edge.source = current THEN edge.target ELSE edge.source
        tentativeGScore == st.g[current]
                           + roadLevelScaled(baseTime(edge) + lightPenalty(neighborId, nds),
                                             edge)
    IN  IF neighborId \in DOMAIN st.g /\ tentativeGScore < st.g[neighborId]
        THEN [open |-> openAdd(st.open, neighborId),
              came |-> [st.came EXCEPT ![neighborId] = current],
              g    |-> [st.g EXCEPT ![neighborId] = tentativeGScore],
              f    |-> [st.f EXCEPT ![neighborId] =
                            tentativeGScore + heuristic(neighborId, endId, nds)]]
        ELSE st

\* one pass of "for (const edge of neighbors)": st = [open, came, g, f]
relaxEdge(st, edge, current, endId, nds) ==
    LET neighborId == IF edge.source = current THEN edge.target ELSE edge.source
        tentativeGScore == st.g[current]
                           + edgeCost(edge, st.came[current], current, neighborId, nds)
    IN  IF neighborId \in DOMAIN st.g /\ tentativeGScore < st.g[neighborId]
        THEN [open |-> openAdd(st.open, neighborId),
              came |-> [st.came EXCEPT ![neighborId] = current],
              g    |-> [st.g EXCEPT ![neighborId] = tentativeGScore],
              f    |-> [st.f EXCEPT ![neighborId] =
                            tentativeGScore + heuristic(neighborId, endId, nds)]]
        ELSE st

RECURSIVE relaxAll(_, _, _, _, _)
relaxAll(st, neighbors, current, endId, nds) ==
    IF neighbors = <<>> THEN st
    ELSE relaxAll(relaxEdge(st, Head(neighbors), current, endId, nds),
                  Tail(neighbors), current, endId, nds)

RECURSIVE searchLoop(_, _, _, _)
searchLoop(st, endId, currentEdges, nds) ==
    IF st.open = <<>> THEN NULL
    ELSE LET current == lowestF(st.open, st.f) IN
         IF current = endId
         THEN [path |-> reconstruct(current, st.came, <<current>>), time |-> st.g[endId]]
         ELSE LET neighbors == SelectSeq(currentEdges,
                                      LAMBDA e : e.source = current \/ e.target = current)
                  popped == [st EXCEPT !.open = openDelete(st.open, current)]
              IN  searchLoop(relaxAll(popped, neighbors, current, endId, nds),
                             endId, currentEdges, nds)

\* the data structures before the first iteration
searchStart(startId, endId, nds) ==
    \* gScore[startId] = 0 and fScore[startId] = ... add the key of a startId that
    \* names no node
    LET keys == DOMAIN nds \cup {startId}
    IN  [open |-> <<startId>>,
         came |-> [n \in keys |-> 0],
         g    |-> [n \in keys |-> IF n = startId THEN 0 ELSE Infinity],
         f    |-> [n \in keys |->
                     IF n = startId THEN heuristic(startId, endId, nds)
                     ELSE Infinity]]

\* the data structures at the head of each iteration of the while loop, in order
RECURSIVE iterations(_, _, _, _)
iterations(st, endId, currentEdges, nds) ==
    IF st.open = <<>> THEN <<>>
    ELSE LET current == lowestF(st.open, st.f) IN
         IF current = endId THEN <<st>>
         ELSE LET neighbors == SelectSeq(currentEdges,
                                      LAMBDA e : e.source = current \/ e.target = current)
                  popped == [st EXCEPT !.open = openDelete(st.open, current)]
              IN  <<st>> \o iterations(relaxAll(popped, neighbors, current, endId, nds),
                                       endId, currentEdges, nds)

findBestPath(startId, endId, currentEdges, nds) ==
    searchLoop(searchStart(startId, endId, nds), endId, currentEdges, nds)

-----------------------------------------------------------------------------
(* Procedural grid generator (constants.ts): the model takes the top-left   *)
(* GridRows x GridCols corner of the 9 x 9 grid, with the grid's spacing.   *)

GridRows == 2
GridCols == 2
MaxTicks == 11          \* transit ticks of the vehicle per run (cap on totalTime)
MaxIncidents == 1       \* edges that may carry an injected incident at once
MaxToggles == 1         \* lights one environment tick may flip in the model
MaxSlowed == 2          \* edges one environment tick may hit with the slow-down
MaxEnvTicks == 2        \* environment ticks in one behaviour
MaxUserOps == 3         \* button presses, clicks and slider moves in one behaviour

PADDING == 100          \* 50 px
SPACING_X == 175        \* (800 - 2 * 50) / (9 - 1) = 87.5 px
SPACING_Y == 125        \* (600 - 2 * 50) / (9 - 1) = 62.5 px
SPEED_LIMIT == 60
HIGHWAY_SPEED == 60
LOCAL_SPEED == 40

NodeIds == 1..(GridRows * GridCols)
RowOf(id) == (id - 1) \div GridCols
ColOf(id) == (id - 1) % GridCols

NODES == [id \in NodeIds |->
            [x |-> PADDING + ColOf(id) * SPACING_X,
             y |-> PADDING + RowOf(id) * SPACING_Y,
             lightStatus |-> "green"]]

\* kmDist = parseFloat((pixelDist / 100).toFixed(2)), in 1/100 km; half-pixels in
kmDist(pixelDist2) == (pixelDist2 + 1) \div 2

createEdge(source, target, baseSpeed) ==
    [id |-> <<source, target>>, source |-> source, target |-> target,
     length |-> kmDist(Abs(NODES[source].x - NODES[target].x)
                       + Abs(NODES[source].y - NODES[target].y)),
     limit |-> SPEED_LIMIT, baseSpeed |-> baseSpeed, currentSpeed |-> baseSpeed,
     congested |-> FALSE]

\* the generation loop, cell by cell: the edge to the right, then the edge down
RECURSIVE generateEdges(_)
generateEdges(currentIndex) ==
    IF currentIndex > GridRows * GridCols THEN <<>>
    ELSE LET r == RowOf(currentIndex)
             c == ColOf(currentIndex)
             right == IF c < GridCols - 1
                      THEN <<createEdge(currentIndex, currentIndex + 1,
                                 IF r % 4 = 0 THEN HIGHWAY_SPEED ELSE LOCAL_SPEED)>>
                      ELSE <<>>
             down == IF r < GridRows - 1
                     THEN <<createEdge(currentIndex, currentIndex + GridCols,
                                IF c % 4 = 0 THEN HIGHWAY_SPEED ELSE LOCAL_SPEED)>>
                     ELSE <<>>
         IN  right \o down \o generateEdges(currentIndex + 1)

INITIAL_EDGES == generateEdges(1)

MIN_SPEED == 5          \* CONSTRAINT_LIMITS.minSpeed, and the clamp of the environment

-----------------------------------------------------------------------------
(* Simulation state *)

DEFAULT_START == 1
DEFAULT_END == GridRows * GridCols         \* '81' on the 9 x 9 grid: bottom-right
DEFAULT_PENALTY == 1500                    \* 1.5 min

ZeroMetrics == [totalTime |-> 0, pathChanges |-> 0, distanceTraveled |-> 0]

\* progress is a fraction of the current edge, in 1/ProgScale
ProgScale == 2 * kmDist(SPACING_X) * kmDist(SPACING_Y)

\* addLog: [entry, ...prev].slice(100)
LOG_SLICE == 100
addLog(prev, message, type) ==
    Slice(<<[message |-> message, type |-> type]>> \o prev, LOG_SLICE, Len(prev) + 1)

\* initialPlanning that clears the route when the planner finds none
initialPlanningClears(start, end, eds, nds, path, est, idx, prog) ==
    LET result == findBestPath(start, end, eds, nds)
    IN  IF result # NULL THEN <<result.path, result.time, 0, 0>>
        ELSE <<<<>>, 0, 0, 0>>

\* the planning effect on mount / while not playing ("Initial Planning")
\* returns the new <<currentPath, estimatedTime, carNodeIndex, progressBetweenNodes>>
initialPlanning(start, end, eds, nds, path, est, idx, prog) ==
    LET result == findBestPath(start, end, eds, nds)
    IN  IF result # NULL THEN <<result.path, result.time, 0, 0>>
        ELSE <<path, est, idx, prog>>

\* the route committed on mount
Init_Path == findBestPath(DEFAULT_START, DEFAULT_END, INITIAL_EDGES, NODES).path

Init ==
    /\ edges = INITIAL_EDGES
    /\ nodes = NODES
    /\ startNode = DEFAULT_START
    /\ endNode = DEFAULT_END
    /\ selectionMode = "null"
    /\ isPlaying = FALSE
    /\ isWaitingForLight = FALSE
    /\ penaltyWeight = DEFAULT_PENALTY
    /\ logs = <<>>
    /\ metrics = ZeroMetrics
    /\ LET p == initialPlanning(DEFAULT_START, DEFAULT_END, INITIAL_EDGES, NODES, <<>>, 0, 0, 0)
       IN  /\ currentPath = p[1]
           /\ estimatedTime = p[2]
           /\ carNodeIndex = p[3]
           /\ progressBetweenNodes = p[4]
    /\ pending = FALSE
    /\ planResult = NULL
    /\ envTicks = 0
    /\ userOps = 0

-----------------------------------------------------------------------------
(* ALGORITHM 2: dynamic environment engine (setInterval, 1500 ms)            *)

\* Samples of the random draws of one tick.  Every draw of the code is possible
\* for every node and edge; the model lets it differ from "no flip, flux 0"
\* only on the nodes of LightSamples and the edges (array indices) of EdgeSamples.
FluxSamples == {0, 74}           \* (Math.random() - 0.5) * 15, in 1/10 km/h
LightSamples == {2, 4}
EdgeSamples == {1, 2, 4}
Draws == {[flux |-> f, slow |-> FALSE] : f \in FluxSamples}
         \cup {[flux |-> 0, slow |-> TRUE]}
ToggleSets == {T \in SUBSET (LightSamples \cap NodeIds) : Cardinality(T) <= MaxToggles}
DrawMaps == {d \in [1..Len(INITIAL_EDGES) -> Draws] :
                /\ Cardinality({i \in DOMAIN d : d[i].slow}) <= MaxSlowed
                /\ \A i \in DOMAIN d : i \notin EdgeSamples => d[i] = [flux |-> 0, slow |-> FALSE]}

toggleLight(n) ==
    [n EXCEPT !.lightStatus = IF n.lightStatus = "green" THEN "red" ELSE "green"]

\* fluxEdge without "if (e.congested) return e"
fluxEdgeAll(e, draw) ==
    LET clamped == Max(MIN_SPEED * 10, Min(e.limit * 10, e.baseSpeed * 10 + draw.flux))
        newSpeed == IF draw.slow THEN Max(MIN_SPEED * 10, e.baseSpeed * 2)
                    ELSE clamped
    IN  [e EXCEPT !.currentSpeed = newSpeed \div 10]

\* one edge of setEdges(prev => prev.map(...)); speeds in 1/10 km/h until the floor
fluxEdge(e, draw) ==
    IF e.congested THEN e
    ELSE LET clamped == Max(MIN_SPEED * 10, Min(e.limit * 10, e.baseSpeed * 10 + draw.flux))
             newSpeed == IF draw.slow THEN Max(MIN_SPEED * 10, e.baseSpeed * 2)
                         ELSE clamped
         IN  [e EXCEPT !.currentSpeed = newSpeed \div 10]

EnvironmentTick ==
    /\ isPlaying /\ ~pending
    /\ envTicks < MaxEnvTicks
    /\ envTicks' = envTicks + 1
    /\ \E T \in ToggleSets :
         nodes' = [id \in DOMAIN nodes |-> IF id \in T THEN toggleLight(nodes[id])
                                           ELSE nodes[id]]
    /\ \E d \in DrawMaps :
         edges' = [i \in 1..Len(edges) |-> fluxEdge(edges[i], d[i])]
    /\ pending' = TRUE
    /\ UNCHANGED <<startNode, endNode, selectionMode, isPlaying, carNodeIndex,
                   progressBetweenNodes, isWaitingForLight, currentPath, estimatedTime,
                   penaltyWeight, logs, metrics, planResult, userOps>>

-----------------------------------------------------------------------------
(* ALGORITHM 3: decision agent and soft constraint (the planning effect)     *)

MIN_REMAINING == 100            \* Math.max(0.1, ...)

oldRemainingTime(est, total) == Max(MIN_REMAINING, est - total)

\* shouldReroute with || in place of &&
shouldRerouteEither(est, total, newRemainingTime, penalty) ==
    LET old == oldRemainingTime(est, total)
        rawTimeSaved == old - newRemainingTime
        netBenefit == rawTimeSaved - penalty
    IN  netBenefit > 0 \/ rawTimeSaved * 5 > old

\* shouldReroute with the operands of netBenefit swapped
shouldRerouteSwapped(est, total, newRemainingTime, penalty) ==
    LET old == oldRemainingTime(est, total)
        rawTimeSaved == old - newRemainingTime
        netBenefit == penalty - rawTimeSaved
    IN  netBenefit > 0 /\ rawTimeSaved * 5 > old

\* netBenefit > 0 && relativeImprovement > 0.2
shouldReroute(est, total, newRemainingTime, penalty) ==
    LET old == oldRemainingTime(est, total)
        rawTimeSaved == old - newRemainingTime
        netBenefit == rawTimeSaved - penalty
    IN  netBenefit > 0 /\ rawTimeSaved * 5 > old

\* currentPath[carNodeIndex], 0 for undefined
pathAt(path, idx) == IF idx >= 0 /\ idx < Len(path) THEN path[idx + 1] ELSE 0

\* the candidate of a reroute evaluation, NULL when none is computed
newRouteFromHere(path, idx, end, eds, nds) ==
    LET currentNode == pathAt(path, idx)
    IN  IF currentNode # 0 /\ currentNode # end
        THEN findBestPath(currentNode, end, eds, nds)
        ELSE NULL

\* the evaluation without the comparison of the two path strings
differsAlways(path, idx, cand) == TRUE

\* oldPathStr !== newPathStr (the joined id lists differ iff the id sequences do)
differsFromRemaining(path, idx, cand) == Slice(path, idx, Len(path)) # cand.path

\* the splice without the traveled prefix
fullNewPathDropsPrefix(path, idx, cand) == cand.path

\* the splice with slice(0, carNodeIndex + 1): the current node comes twice
fullNewPathRepeatsCurrent(path, idx, cand) == Slice(path, 0, idx + 1) \o cand.path

fullNewPath(path, idx, cand) == Slice(path, 0, idx) \o cand.path

PlanningEffect ==
    /\ pending
    /\ pending' = FALSE
    /\ IF ~isPlaying
       THEN LET p == initialPlanning(startNode, endNode, edges, nodes, currentPath,
                                     estimatedTime, carNodeIndex, progressBetweenNodes)
            IN  /\ currentPath' = p[1]
                /\ estimatedTime' = p[2]
                /\ carNodeIndex' = p[3]
                /\ progressBetweenNodes' = p[4]
                /\ UNCHANGED <<logs, metrics>>
       ELSE LET cand == newRouteFromHere(currentPath, carNodeIndex, endNode, edges, nodes)
            IN  IF /\ cand # NULL
                   /\ differsFromRemaining(currentPath, carNodeIndex, cand)
                   /\ shouldReroute(estimatedTime, metrics.totalTime, cand.time, penaltyWeight)
                THEN /\ logs' = addLog(logs, "Triggered Reroute", "success")
                     /\ currentPath' = fullNewPath(currentPath, carNodeIndex, cand)
                     /\ metrics' = [metrics EXCEPT !.pathChanges = @ + 1]
                     /\ estimatedTime' = metrics.totalTime + cand.time
                     /\ UNCHANGED <<carNodeIndex, progressBetweenNodes>>
                ELSE UNCHANGED <<logs, currentPath, metrics, estimatedTime,
                                 carNodeIndex, progressBetweenNodes>>
    /\ UNCHANGED <<edges, nodes, startNode, endNode, selectionMode, isPlaying,
                   isWaitingForLight, penaltyWeight, planResult, envTicks, userOps>>

-----------------------------------------------------------------------------
(* 3. Vehicle movement loop (setInterval, 50 ms)                             *)

MOVE_TIME == 20                 \* 0.02 min per driving tick
WAIT_TIME == 50                 \* 0.05 min per waiting tick

\* edges.find(e => (source === u && target === v) || (source === v && target === u))
RECURSIVE findEdge(_, _, _)
findEdge(eds, u, v) ==
    IF eds = <<>> THEN <<>>
    ELSE LET e == Head(eds) IN
         IF (e.source = u /\ e.target = v) \/ (e.source = v /\ e.target = u)
         THEN <<e>> ELSE findEdge(Tail(eds), u, v)

\* step = (speed / length) * 0.005, as a fraction of ProgScale
stepOf(edge) == (edge.currentSpeed * ProgScale) \div (2 * edge.length)

\* progressBetweenNodes > 0.85
nearIntersection(progress) == progress * 100 > 85 * ProgScale

\* setIsPlaying(false); addLog(message, type); return
stopVehicle(message, type) ==
    /\ isPlaying' = FALSE
    /\ logs' = addLog(logs, message, type)
    /\ pending' = TRUE
    /\ UNCHANGED <<carNodeIndex, progressBetweenNodes, isWaitingForLight, metrics>>

\* the waiting branch without the idle time cost
waitForLightFree ==
    /\ isWaitingForLight' = TRUE
    /\ UNCHANGED <<metrics, isPlaying, logs, pending, carNodeIndex, progressBetweenNodes>>

\* red light ahead and close to the intersection: stop moving
waitForLight ==
    /\ isWaitingForLight' = TRUE
    /\ metrics' = [metrics EXCEPT !.totalTime = @ + WAIT_TIME]
    /\ UNCHANGED <<isPlaying, logs, pending, carNodeIndex, progressBetweenNodes>>

\* drive without setIsWaitingForLight(false)
driveKeepsWaiting(edge) ==
    LET step == stepOf(edge)
        newProgress == progressBetweenNodes + step
    IN  /\ UNCHANGED isWaitingForLight
        /\ IF newProgress >= ProgScale
           THEN /\ carNodeIndex' = carNodeIndex + 1
                /\ progressBetweenNodes' = 0
           ELSE /\ progressBetweenNodes' = newProgress
                /\ UNCHANGED carNodeIndex
        /\ metrics' = [metrics EXCEPT !.totalTime = @ + MOVE_TIME,
                                      !.distanceTraveled = @ + edge.currentSpeed]
        /\ UNCHANGED <<isPlaying, logs, pending>>

\* drive without the test newProgress >= 1: the progress is stored as computed
driveNoAdvance(edge) ==
    LET step == stepOf(edge)
        newProgress == progressBetweenNodes + step
    IN  /\ isWaitingForLight' = FALSE
        /\ progressBetweenNodes' = newProgress
        /\ UNCHANGED carNodeIndex
        /\ metrics' = [metrics EXCEPT !.totalTime = @ + MOVE_TIME,
                                      !.distanceTraveled = @ + edge.currentSpeed]
        /\ UNCHANGED <<isPlaying, logs, pending>>

drive(edge) ==
    LET step == stepOf(edge)
        newProgress == progressBetweenNodes + step
    IN  /\ isWaitingForLight' = FALSE
        /\ IF newProgress >= ProgScale
           THEN /\ carNodeIndex' = carNodeIndex + 1
                /\ progressBetweenNodes' = 0
           ELSE /\ progressBetweenNodes' = newProgress
                /\ UNCHANGED carNodeIndex
        /\ metrics' = [metrics EXCEPT !.totalTime = @ + MOVE_TIME,
                                      !.distanceTraveled = @ + edge.currentSpeed]
        /\ UNCHANGED <<isPlaying, logs, pending>>

\* the red-light test that stays true once the vehicle is waiting
redAheadSticky(v) ==
    isWaitingForLight \/ (v \in DOMAIN nodes /\ nodes[v].lightStatus = "red")

redAhead(v) == v \in DOMAIN nodes /\ nodes[v].lightStatus = "red"

VehicleTick ==
    /\ isPlaying /\ ~pending
    /\ IF carNodeIndex >= Len(currentPath) - 1
       THEN stopVehicle("Destination Reached", "success")
       ELSE LET u == pathAt(currentPath, carNodeIndex)
                v == pathAt(currentPath, carNodeIndex + 1)
                found == findEdge(edges, u, v)
            IN  IF found = <<>>
                THEN stopVehicle("Path connectivity lost", "error")
                ELSE /\ metrics.totalTime < MaxTicks * MOVE_TIME
                     /\ IF redAhead(v) /\ nearIntersection(progressBetweenNodes)
                        THEN waitForLight
                        ELSE drive(found[1])
    /\ UNCHANGED <<edges, nodes, startNode, endNode, selectionMode, currentPath,
                   estimatedTime, penaltyWeight, planResult, envTicks, userOps>>

-----------------------------------------------------------------------------
(* Interaction handling *)

SelectStartButton ==
    /\ ~pending
    /\ userOps < MaxUserOps
    /\ userOps' = userOps + 1
    /\ selectionMode' = IF selectionMode = "start" THEN "null" ELSE "start"
    /\ UNCHANGED <<edges, nodes, startNode, endNode, isPlaying, carNodeIndex,
                   progressBetweenNodes, isWaitingForLight, currentPath, estimatedTime,
                   penaltyWeight, logs, metrics, pending, planResult, envTicks>>

SelectEndButton ==
    /\ ~pending
    /\ userOps < MaxUserOps
    /\ userOps' = userOps + 1
    /\ selectionMode' = IF selectionMode = "end" THEN "null" ELSE "end"
    /\ UNCHANGED <<edges, nodes, startNode, endNode, isPlaying, carNodeIndex,
                   progressBetweenNodes, isWaitingForLight, currentPath, estimatedTime,
                   penaltyWeight, logs, metrics, pending, planResult, envTicks>>

\* handleReset without setEdges(INITIAL_EDGES)
resetUpdatesKeepsEdges(prevLogs) ==
    /\ isPlaying' = FALSE
    /\ carNodeIndex' = 0
    /\ progressBetweenNodes' = 0
    /\ isWaitingForLight' = FALSE
    /\ metrics' = ZeroMetrics
    /\ edges' = edges
    /\ logs' = addLog(prevLogs, "Simulation reset", "info")

\* the state updates of handleReset, given the log it appends to
resetUpdates(prevLogs) ==
    /\ isPlaying' = FALSE
    /\ carNodeIndex' = 0
    /\ progressBetweenNodes' = 0
    /\ isWaitingForLight' = FALSE
    /\ metrics' = ZeroMetrics
    /\ edges' = INITIAL_EDGES
    /\ logs' = addLog(prevLogs, "Simulation reset", "info")

handleReset ==
    /\ ~pending
    /\ userOps < MaxUserOps
    /\ userOps' = userOps + 1
    /\ resetUpdates(logs)
    /\ pending' = TRUE
    /\ UNCHANGED <<nodes, startNode, endNode, selectionMode, currentPath, estimatedTime,
                   penaltyWeight, planResult, envTicks>>

\* handleNodeClick without the call of handleReset
handleNodeClickNoReset(id) ==
    /\ ~pending
    /\ userOps < MaxUserOps
    /\ userOps' = userOps + 1
    /\ selectionMode # "null"
    /\ IF selectionMode = "start"
       THEN /\ startNode' = id
            /\ logs' = addLog(logs, "Start set", "info")
            /\ UNCHANGED endNode
       ELSE /\ endNode' = id
            /\ logs' = addLog(logs, "End set", "info")
            /\ UNCHANGED startNode
    /\ selectionMode' = "null"
    /\ pending' = TRUE
    /\ UNCHANGED <<nodes, currentPath, estimatedTime, penaltyWeight, planResult, envTicks,
                   isPlaying, carNodeIndex, progressBetweenNodes, isWaitingForLight,
                   metrics, edges>>

handleNodeClick(id) ==
    /\ ~pending
    /\ userOps < MaxUserOps
    /\ userOps' = userOps + 1
    /\ selectionMode # "null"
    /\ IF selectionMode = "start"
       THEN /\ startNode' = id
            /\ resetUpdates(addLog(logs, "Start set", "info"))
            /\ UNCHANGED endNode
       ELSE /\ endNode' = id
            /\ resetUpdates(addLog(logs, "End set", "info"))
            /\ UNCHANGED startNode
    /\ selectionMode' = "null"
    /\ pending' = TRUE
    /\ UNCHANGED <<nodes, currentPath, estimatedTime, penaltyWeight, planResult, envTicks>>

NodeClick == \E id \in NodeIds : handleNodeClick(id)

\* the Start / Pause button
PlayButton ==
    /\ ~pending
    /\ userOps < MaxUserOps
    /\ userOps' = userOps + 1
    /\ logs' = IF ~isPlaying /\ carNodeIndex = 0
               THEN addLog(logs, "Simulation started", "info") ELSE logs
    /\ isPlaying' = ~isPlaying
    /\ pending' = TRUE
    /\ UNCHANGED <<edges, nodes, startNode, endNode, selectionMode, carNodeIndex,
                   progressBetweenNodes, isWaitingForLight, currentPath, estimatedTime,
                   penaltyWeight, metrics, planResult, envTicks>>

ACCIDENT_SPEED == 2

\* triggerCongestion matching the edges on their source node only
triggerCongestionBySource(edgeId, speed, reason) ==
    /\ edges' = [i \in 1..Len(edges) |->
                    IF edges[i].source = edgeId[1]
                    THEN [edges[i] EXCEPT !.currentSpeed = speed, !.congested = TRUE]
                    ELSE edges[i]]
    /\ logs' = addLog(logs, reason, "error")

triggerCongestion(edgeId, speed, reason) ==
    /\ edges' = [i \in 1..Len(edges) |->
                    IF edges[i].id = edgeId
                    THEN [edges[i] EXCEPT !.currentSpeed = speed, !.congested = TRUE]
                    ELSE edges[i]]
    /\ logs' = addLog(logs, reason, "error")

\* "Trigger Random Accident": a random edge among those not yet congested
RandomAccident ==
    /\ ~pending
    /\ userOps < MaxUserOps
    /\ userOps' = userOps + 1
    /\ Cardinality({i \in 1..Len(edges) : edges[i].congested}) < MaxIncidents
    /\ \E i \in 1..Len(edges) :
         /\ ~edges[i].congested
         /\ triggerCongestion(edges[i].id, ACCIDENT_SPEED, "Sudden Accident")
    /\ pending' = TRUE
    /\ UNCHANGED <<nodes, startNode, endNode, selectionMode, isPlaying, carNodeIndex,
                   progressBetweenNodes, isWaitingForLight, currentPath, estimatedTime,
                   penaltyWeight, metrics, planResult, envTicks>>

PenaltySamples == {0, 1500}     \* the slider: 0 .. 5 min in steps of 0.1

PenaltySlider ==
    /\ ~pending
    /\ userOps < MaxUserOps
    /\ userOps' = userOps + 1
    /\ \E w \in PenaltySamples :
         /\ w # penaltyWeight
         /\ penaltyWeight' = w
    /\ pending' = TRUE
    /\ UNCHANGED <<edges, nodes, startNode, endNode, selectionMode, isPlaying,
                   carNodeIndex, progressBetweenNodes, isWaitingForLight, currentPath,
                   estimatedTime, logs, metrics, planResult, envTicks>>

Next ==
    \/ EnvironmentTick
    \/ PlanningEffect
    \/ VehicleTick
    \/ SelectStartButton
    \/ SelectEndButton
    \/ NodeClick
    \/ handleReset
    \/ PlayButton
    \/ RandomAccident
    \/ PenaltySlider

Spec == Init /\ [][Next]_vars

-----------------------------------------------------------------------------
(* The handlers as operations: setStart / setEnd are handleNodeClick in the     *)
(* matching selection mode and injectIncident is triggerCongestion, called with *)
(* any id, one that names no node or edge included (the page itself only passes *)
(* ids of rendered nodes and of existing edges).                                *)

NO_NODE == GridRows * GridCols + 1
NO_EDGE == <<NO_NODE, NO_NODE>>

OpNodeClick == \E id \in NodeIds \cup {NO_NODE} : handleNodeClick(id)

OpInjectIncident ==
    /\ ~pending
    /\ userOps < MaxUserOps
    /\ userOps' = userOps + 1
    /\ Cardinality({i \in 1..Len(edges) : edges[i].congested}) < MaxIncidents
    /\ \E edgeId \in {edges[i].id : i \in 1..Len(edges)} \cup {NO_EDGE} :
         triggerCongestion(edgeId, ACCIDENT_SPEED, "Sudden Accident")
    /\ pending' = TRUE
    /\ UNCHANGED <<nodes, startNode, endNode, selectionMode, isPlaying, carNodeIndex,
                   progressBetweenNodes, isWaitingForLight, currentPath, estimatedTime,
                   penaltyWeight, metrics, planResult, envTicks>>

OpNext ==
    \/ EnvironmentTick
    \/ PlanningEffect
    \/ VehicleTick
    \/ SelectStartButton
    \/ SelectEndButton
    \/ OpNodeClick
    \/ handleReset
    \/ PlayButton
    \/ OpInjectIncident
    \/ PenaltySlider

SpecOp == Init /\ [][OpNext]_vars

-----------------------------------------------------------------------------
(* The planner alone: findBestPath applied to graphs drawn from a bounded    *)
(* family (arbitrary lengths, speeds, limits and lights on four nodes).      *)

NOT_CALLED == [path |-> <<>>, time |-> -2]

PlanNodeIds == {1, 2, 3, 4}
PlanLayouts == {"grid", "line"}
\* "grid": the 2 x 2 corner of the generated grid; "line": the ids along one row
PlanNodes(layout, redSet) ==
    [id \in PlanNodeIds |->
        [x |-> IF layout = "grid" THEN PADDING + ((id - 1) % 2) * SPACING_X
                                  ELSE PADDING + (id - 1) * SPACING_X,
         y |-> IF layout = "grid" THEN PADDING + ((id - 1) \div 2) * SPACING_Y
                                  ELSE PADDING,
         lightStatus |-> IF id \in redSet THEN "red" ELSE "green"]]

\* candidate edges in array order, and the kinds an edge may have
PlanPairs == << <<1, 2>>, <<1, 3>>, <<2, 4>>, <<3, 4>>, <<1, 4>> >>
PlanKinds == {[short |-> FALSE, speed |-> 60, limit |-> 60],   \* as generated, highway
              [short |-> FALSE, speed |-> 40, limit |-> 60],   \* slower traffic
              [short |-> TRUE,  speed |-> 60, limit |-> 60],   \* shorter than its pixels
              [short |-> FALSE, speed |-> 60, limit |-> 40]}   \* local road
ABSENT == [short |-> FALSE, speed |-> 0, limit |-> 0]
SHORT_LENGTH == 20
PlanRedSets == {{}, {2}, {4}}
PlanQueries == {<<1, 4>>, <<4, 1>>, <<2, 3>>, <<1, 3>>}

\* an edge as long as the pixels between its ends (1 km per 100 px), or SHORT_LENGTH
PlanLength(pair, kind, nds) ==
    IF kind.short THEN SHORT_LENGTH
    ELSE kmDist(Abs(nds[pair[1]].x - nds[pair[2]].x) + Abs(nds[pair[1]].y - nds[pair[2]].y))

RECURSIVE PlanEdges(_, _, _)
PlanEdges(choice, nds, i) ==
    IF i > Len(PlanPairs) THEN <<>>
    ELSE (IF choice[i] = ABSENT THEN <<>>
          ELSE <<[id |-> PlanPairs[i], source |-> PlanPairs[i][1],
                  target |-> PlanPairs[i][2],
                  length |-> PlanLength(PlanPairs[i], choice[i], nds),
                  limit |-> choice[i].limit, baseSpeed |-> choice[i].speed,
                  currentSpeed |-> choice[i].speed, congested |-> FALSE]>>)
         \o PlanEdges(choice, nds, i + 1)

PlanInit ==
    /\ \E layout \in PlanLayouts, redSet \in PlanRedSets :
         nodes = PlanNodes(layout, redSet)
    /\ \E choice \in [1..Len(PlanPairs) -> PlanKinds \cup {ABSENT}] :
         edges = PlanEdges(choice, nodes, 1)
    /\ \E q \in PlanQueries : startNode = q[1] /\ endNode = q[2]
    /\ selectionMode = "null"
    /\ isPlaying = FALSE
    /\ isWaitingForLight = FALSE
    /\ penaltyWeight = DEFAULT_PENALTY
    /\ logs = <<>>
    /\ metrics = ZeroMetrics
    /\ currentPath = <<>>
    /\ estimatedTime = 0
    /\ carNodeIndex = 0
    /\ progressBetweenNodes = 0
    /\ pending = FALSE
    /\ planResult = NOT_CALLED
    /\ envTicks = 0
    /\ userOps = 0

CallPlanner ==
    /\ planResult = NOT_CALLED
    /\ planResult' = findBestPath(startNode, endNode, edges, nodes)
    /\ UNCHANGED <<edges, nodes, startNode, endNode, selectionMode, isPlaying,
                   carNodeIndex, progressBetweenNodes, isWaitingForLight, currentPath,
                   estimatedTime, penaltyWeight, logs, metrics, pending, envTicks, userOps>>

PlanNext == CallPlanner

SpecPlan == PlanInit /\ [][PlanNext]_vars

-----------------------------------------------------------------------------
(* Reference shortest path on the static weights (travel time plus the      *)
(* red-light penalty of the node entered), by Bellman-Ford relaxation.       *)

staticWeight(edge, to, nds) == baseTime(edge) + lightPenalty(to, nds)

relaxRound(dist, eds, nds) ==
    [n \in DOMAIN nds |->
        LET via == {dist[IF eds[i].source = n THEN eds[i].target ELSE eds[i].source]
                        + staticWeight(eds[i], n, nds) :
                    i \in {j \in 1..Len(eds) :
                             /\ eds[j].source = n \/ eds[j].target = n
                             /\ dist[IF eds[j].source = n THEN eds[j].target
                                     ELSE eds[j].source] < Infinity}}
            best == IF via = {} THEN Infinity
                    ELSE CHOOSE c \in via : \A o \in via : c <= o
        IN  Min(dist[n], best)]

RECURSIVE relaxRounds(_, _, _, _)
relaxRounds(dist, eds, nds, k) ==
    IF k = 0 THEN dist ELSE relaxRounds(relaxRound(dist, eds, nds), eds, nds, k - 1)

\* shortest static cost from src to every node (Infinity: unreachable)
refDistance(src, eds, nds) ==
    relaxRounds([n \in DOMAIN nds |-> IF n = src THEN 0 ELSE Infinity],
                eds, nds, Cardinality(DOMAIN nds))

edgeList(eds) == {eds[i] : i \in 1..Len(eds)}

\* the turn penalty never applies and the road-level factor is 1 on every edge
ZeroTurnAndLevel(eds, nds) ==
    /\ \A e \in edgeList(eds) : e.limit >= HIGHWAY_LIMIT
    /\ \A e1, e2 \in edgeList(eds) :
         getDirection(e1.source, e1.target, nds) = getDirection(e2.source, e2.target, nds)

\* the heuristic never overestimates the static cost that remains to the goal
HeuristicAdmissible(goal, eds, nds) ==
    \A n \in DOMAIN nds :
        heuristic(n, goal, nds) <= refDistance(n, eds, nds)[goal]

Joined(a, b, eds) ==
    \E e \in edgeList(eds) : (e.source = a /\ e.target = b) \/ (e.source = b /\ e.target = a)

NoRepeat(path) == \A i, j \in 1..Len(path) : i # j => path[i] # path[j]

PlannerCalled == planResult # NOT_CALLED

\* C6: every non-null path returned by findBestPath begins at start, ends at goal,
\* repeats no node id, and each consecutive pair is joined by an edge of the list
C6_PathWellFormed ==
    (PlannerCalled /\ planResult # NULL) =>
        /\ Len(planResult.path) >= 1
        /\ planResult.path[1] = startNode
        /\ planResult.path[Len(planResult.path)] = endNode
        /\ NoRepeat(planResult.path)
        /\ \A i \in 1..(Len(planResult.path) - 1) :
             Joined(planResult.path[i], planResult.path[i + 1], edges)

\* a returned path of three edges
C6_Witness ==
    /\ PlannerCalled /\ planResult # NULL
    /\ Len(planResult.path) = 4

PlannerMatchesReference ==
    LET ref == refDistance(startNode, edges, nodes)[endNode]
    IN  /\ (planResult = NULL) <=> (ref = Infinity)
        /\ planResult # NULL => planResult.time = ref

\* C7 as claimed: with no turn penalty and road-level factor 1, on every graph, the
\* planner's time is the reference shortest-path cost, and it returns no path exactly
\* when the reference finds none
C7_AsClaimed ==
    (PlannerCalled /\ ZeroTurnAndLevel(edges, nodes)) => PlannerMatchesReference

\* C7 amended: the same, on the graphs where the heuristic never overestimates
C7_OptimalWhenAdmissible ==
    (/\ PlannerCalled
     /\ ZeroTurnAndLevel(edges, nodes)
     /\ HeuristicAdmissible(endNode, edges, nodes)) => PlannerMatchesReference

\* an admissible graph on which the planner takes a detour of two edges because it
\* is cheaper than the edge that joins start and goal directly
C7_Witness ==
    /\ PlannerCalled /\ planResult # NULL
    /\ ZeroTurnAndLevel(edges, nodes)
    /\ HeuristicAdmissible(endNode, edges, nodes)
    /\ Len(planResult.path) = 3
    /\ Joined(startNode, endNode, edges)

-----------------------------------------------------------------------------
(* Reroute decision (C1 - C3) *)

\* the candidate the next run of the planning effect evaluates, and whether it is
\* a reroute evaluation whose candidate differs from the remaining committed path
Candidate == newRouteFromHere(currentPath, carNodeIndex, endNode, edges, nodes)
Remaining == SubSeq(currentPath, carNodeIndex + 1, Len(currentPath))
Traveled == SubSeq(currentPath, 1, carNodeIndex)
Evaluating == pending /\ isPlaying /\ Candidate # NULL
EvaluatingOther == Evaluating /\ Candidate.path # Remaining

\* the acceptance rule as the claim states it, at penalty weight p
ClaimedAccept(p) ==
    LET oldRemaining == Max(MIN_REMAINING, estimatedTime - metrics.totalTime)
        newRemaining == Candidate.time
    IN  /\ oldRemaining - newRemaining - p > 0
        /\ (oldRemaining - newRemaining) * 5 > oldRemaining

Committed ==
    /\ currentPath' = Traveled \o Candidate.path
    /\ metrics'.pathChanges = metrics.pathChanges + 1

\* C1: a reroute evaluation whose candidate differs from the remaining committed path
\* commits the candidate iff (oldRemaining - newRemaining - penaltyWeight) > 0 and
\* (oldRemaining - newRemaining) / oldRemaining > 0.2; with penalty 1.5 and oldRemaining
\* 10, newRemaining 5 is accepted and newRemaining 9 is rejected
C1_AcceptIff ==
    [][/\ shouldReroute(10000, 0, 5000, 1500)
       /\ ~shouldReroute(10000, 0, 9000, 1500)
       /\ EvaluatingOther =>
            /\ Committed <=> ClaimedAccept(penaltyWeight)
            /\ Committed \/ UNCHANGED <<currentPath, metrics>>]_vars

\* an accepted reroute has been committed
C1_Witness == isPlaying /\ ~pending /\ metrics.pathChanges = 1

SliderValues == {100 * k : k \in 0..50}         \* 0 .. 5 min in steps of 0.1

\* C2: in a reroute evaluation, a candidate rejected at penalty weight p is rejected
\* at every penalty weight p2 >= p, all else fixed
C2_MonotonicInPenalty ==
    (pending /\ isPlaying) =>
        LET cand == Candidate
            rejected == {p \in SliderValues :
                            ~shouldReroute(estimatedTime, metrics.totalTime, cand.time, p)}
        IN  (cand # NULL /\ cand.path # Remaining) =>
                \A p \in rejected, p2 \in SliderValues : p <= p2 => p2 \in rejected

\* an evaluation that accepts at penalty 0 and rejects at penalty 5
C2_Witness ==
    /\ pending /\ isPlaying
    /\ LET cand == Candidate
       IN  /\ cand # NULL /\ cand.path # Remaining
           /\ shouldReroute(estimatedTime, metrics.totalTime, cand.time, 0)
           /\ ~shouldReroute(estimatedTime, metrics.totalTime, cand.time, 5000)

\* C3: a reroute evaluation that does not accept (the candidate equals the remaining
\* committed path, or the acceptance test fails) leaves the committed path, the
\* estimated total time, the reroute count and the decision log as they were
C3_RejectChangesNothing ==
    [][(Evaluating /\ (Candidate.path = Remaining \/ ~ClaimedAccept(penaltyWeight)))
        => /\ UNCHANGED <<currentPath, estimatedTime, logs>>
           /\ metrics'.pathChanges = metrics.pathChanges]_vars

\* the evaluation of this very state has run (nothing has moved since) and has
\* rejected a candidate that differs from the remaining committed path
C3_Witness ==
    /\ isPlaying /\ ~pending /\ envTicks >= 1
    /\ metrics.totalTime = 0
    /\ Candidate # NULL /\ Candidate.path # Remaining
    /\ ~ClaimedAccept(penaltyWeight)

-----------------------------------------------------------------------------
(* Environment and incidents (C4, C5) *)

EnvironmentStep == envTicks' = envTicks + 1

\* C4: once an incident is injected on an edge, no environment tick changes the edge's
\* current speed or incident flag, and no other step does unless it is a reset
C4_IncidentFrozen ==
    [][\A i \in 1..Len(edges) :
          edges[i].congested =>
              /\ EnvironmentStep => edges'[i] = edges[i]
              /\ edges'[i] = edges[i] \/ edges' = INITIAL_EDGES]_vars

UsesEdge(path, e) ==
    \E k \in 1..(Len(path) - 1) :
        \/ path[k] = e.source /\ path[k + 1] = e.target
        \/ path[k] = e.target /\ path[k + 1] = e.source

\* the incident was injected before the start (the route planned at rest avoids the
\* edge), the environment has ticked since, and the edge still has the forced speed
C4_Witness ==
    /\ isPlaying /\ envTicks >= 1 /\ userOps = 2 /\ metrics.pathChanges = 0
    /\ \E i \in EdgeSamples :
         /\ edges[i].congested /\ edges[i].currentSpeed = ACCIDENT_SPEED
         /\ ~UsesEdge(currentPath, edges[i])
         /\ UsesEdge(Init_Path, edges[i])

\* C5: every edge has 0 < minSpeed (5 km/h) <= currentSpeed <= limit in every state
C5_SpeedInRange ==
    \A i \in 1..Len(edges) :
        /\ 0 < MIN_SPEED
        /\ MIN_SPEED <= edges[i].currentSpeed
        /\ edges[i].currentSpeed <= edges[i].limit

-----------------------------------------------------------------------------
(* Vehicle at a red light (C9) *)

TransitTick == metrics'.totalTime > metrics.totalTime
NextNode == pathAt(currentPath, carNodeIndex + 1)
NextIsRed == NextNode \in DOMAIN nodes /\ nodes[NextNode].lightStatus = "red"

\* C9: a vehicle tick with the next node's light Red and progress > 0.85 sets
\* waiting-for-light and leaves edge index and progress unchanged; a vehicle tick
\* with that light Green clears waiting-for-light and advances progress by a positive
\* step, or advances the index
C9_RedLightStop ==
    [][TransitTick =>
         /\ (NextIsRed /\ progressBetweenNodes * 100 > 85 * ProgScale) =>
               /\ isWaitingForLight'
               /\ carNodeIndex' = carNodeIndex
               /\ progressBetweenNodes' = progressBetweenNodes
         /\ ~NextIsRed =>
               /\ ~isWaitingForLight'
               /\ \/ /\ carNodeIndex' = carNodeIndex
                     /\ progressBetweenNodes' > progressBetweenNodes
                  \/ /\ carNodeIndex' = carNodeIndex + 1
                     /\ progressBetweenNodes' = 0]_vars

\* the vehicle stands before a red light, past 85 % of the edge
C9_Witness ==
    /\ isPlaying /\ isWaitingForLight /\ NextIsRed
    /\ progressBetweenNodes * 100 > 85 * ProgScale

-----------------------------------------------------------------------------
(* Decision log (C10) *)

LOG_CAPACITY == 100

\* C10: the log holds the min(n, 100) most recently added entries, newest first: a
\* reset puts its entry first, in front of the entries the log held, and drops
\* entries only beyond the 100th
C10_NewestFirst ==
    [][handleReset =>
         logs' = SubSeq(<<[message |-> "Simulation reset", type |-> "info"]>> \o logs,
                        1, Min(LOG_CAPACITY, Len(logs) + 1))]_vars

-----------------------------------------------------------------------------
(* The committed path (C17) *)

\* C17: in every state in which the planning effect has run, the committed path
\* contains no node id twice and, if it is non-empty, starts at the requested start
\* node and ends at the requested end node
C17_PathLoopFree ==
    ~pending =>
        /\ NoRepeat(currentPath)
        /\ currentPath # <<>> =>
              /\ currentPath[1] = startNode
              /\ currentPath[Len(currentPath)] = endNode

-----------------------------------------------------------------------------
(* No route available (C11) *)

\* the planner call of the next run of the planning effect returns null
NoRouteFound ==
    /\ pending
    /\ IF ~isPlaying
       THEN findBestPath(startNode, endNode, edges, nodes) = NULL
       ELSE /\ pathAt(currentPath, carNodeIndex) \notin {0, endNode}
            /\ findBestPath(pathAt(currentPath, carNodeIndex), endNode, edges, nodes) = NULL

\* C11: when the planner returns no path, neither initial planning nor a reroute
\* evaluation changes the committed path, estimated time, edge index, progress or
\* reroute count, and the simulation is not stopped and gets no log entry
C11_NoRouteKeepsState ==
    [][NoRouteFound =>
         /\ UNCHANGED <<currentPath, estimatedTime, carNodeIndex, progressBetweenNodes>>
         /\ metrics' = metrics
         /\ UNCHANGED <<isPlaying, logs>>]_vars

\* the end was set to an id that names no node: initial planning found no route and
\* kept the route of the mount, then the start ran a reroute evaluation that found
\* none either
C11_Witness ==
    /\ isPlaying /\ ~pending
    /\ endNode = NO_NODE
    /\ currentPath = Init_Path
    /\ findBestPath(startNode, endNode, edges, nodes) = NULL
    /\ findBestPath(pathAt(currentPath, carNodeIndex), endNode, edges, nodes) = NULL

-----------------------------------------------------------------------------
(* Operations called with an id that names nothing (C13) *)

\* C13: an operation called with an id that names no node or edge is rejected and
\* leaves graph, start / end selection, simulation state and decision log unchanged;
\* stated for setStart and setEnd (a node click in the matching selection mode)
C13_InvalidIdRejected ==
    [][handleNodeClick(NO_NODE)
       => UNCHANGED <<edges, nodes, startNode, endNode, isPlaying, carNodeIndex,
                      progressBetweenNodes, isWaitingForLight, currentPath,
                      estimatedTime, metrics, logs>>]_vars

-----------------------------------------------------------------------------
(* Reset, pause, selection (C14 - C16) *)

\* C14: after reset the simulation is not playing, every edge has its original
\* speed and no incident flag, and edge index, progress, elapsed time, distance
\* traveled and reroute count are 0 with waiting-for-light false
C14_ResetRestores ==
    [][handleReset =>
         /\ ~isPlaying'
         /\ edges' = INITIAL_EDGES
         /\ \A i \in 1..Len(edges') :
              edges'[i].currentSpeed = edges'[i].baseSpeed /\ ~edges'[i].congested
         /\ carNodeIndex' = 0 /\ progressBetweenNodes' = 0
         /\ metrics'.totalTime = 0 /\ metrics'.distanceTraveled = 0
         /\ metrics'.pathChanges = 0
         /\ ~isWaitingForLight']_vars

\* an incident injected at rest made the planner leave the route of the mount, and
\* the reset that followed has restored the edges
C14_Witness ==
    /\ pending /\ ~isPlaying /\ userOps = 2
    /\ edges = INITIAL_EDGES /\ metrics = ZeroMetrics
    /\ currentPath # Init_Path

\* the vehicle has left the start of the committed path and not reached its end
MidRoute ==
    /\ carNodeIndex > 0 \/ progressBetweenNodes > 0
    /\ carNodeIndex < Len(currentPath) - 1

\* C15: while the simulation is paused no callback changes graph or simulation
\* state: the callback that runs after a pause in mid-route leaves edge speeds,
\* lights, committed path, edge index, progress, elapsed time, distance and reroute
\* count as they were
C15_PausedFrozen ==
    [][(pending /\ ~isPlaying /\ MidRoute) =>
         UNCHANGED <<edges, nodes, currentPath, carNodeIndex, progressBetweenNodes,
                     metrics>>]_vars

\* C16: setStart(n) and setEnd(n) with a valid node perform a reset and a replan:
\* the click stops the simulation, zeroes metrics, index and progress and restores
\* the edges, and the planning that follows commits the planner's result from the
\* new start to the new end on the graph as reset, leaving the rest as the click
\* left it
C16_SelectResetsAndReplans ==
    [][/\ NodeClick =>
            /\ \E id \in NodeIds :
                 IF selectionMode = "start"
                 THEN startNode' = id /\ endNode' = endNode
                 ELSE endNode' = id /\ startNode' = startNode
            /\ ~isPlaying' /\ metrics' = ZeroMetrics
            /\ carNodeIndex' = 0 /\ progressBetweenNodes' = 0
            /\ edges' = INITIAL_EDGES /\ pending'
       /\ (pending /\ ~isPlaying) =>
            LET plan == findBestPath(startNode, endNode, edges, nodes)
            IN  plan # NULL =>
                  /\ currentPath' = plan.path /\ estimatedTime' = plan.time
                  /\ carNodeIndex' = 0 /\ progressBetweenNodes' = 0
                  /\ UNCHANGED <<isPlaying, metrics, edges, nodes, startNode, endNode>>
      ]_vars

\* a new start has been selected and the route replanned from it
C16_Witness ==
    /\ ~pending /\ ~isPlaying
    /\ startNode # DEFAULT_START /\ startNode # endNode
    /\ currentPath # <<>>
    /\ currentPath[1] = startNode /\ currentPath[Len(currentPath)] = endNode
    /\ currentPath = findBestPath(startNode, endNode, INITIAL_EDGES, nodes).path
    /\ metrics = ZeroMetrics /\ carNodeIndex = 0

-----------------------------------------------------------------------------
(* Incident injection (C18) *)

\* C18: injecting an incident on an existing edge sets exactly that edge's current
\* speed to the forced speed and its incident flag, and changes no other edge, no
\* light, and nothing of path, index, progress, elapsed time and reroute count
C18_InjectionFrame ==
    [][RandomAccident =>
         /\ \E i \in 1..Len(edges) :
              edges' = [edges EXCEPT ![i] = [@ EXCEPT !.currentSpeed = ACCIDENT_SPEED,
                                                      !.congested = TRUE]]
         /\ UNCHANGED <<nodes, currentPath, estimatedTime, carNodeIndex,
                        progressBetweenNodes, metrics, isPlaying, startNode, endNode>>
      ]_vars

\* an incident was injected while the vehicle was under way
C18_Witness ==
    /\ pending /\ isPlaying /\ metrics.totalTime > 0
    /\ Cardinality({i \in 1..Len(edges) : edges[i].congested}) = 1
    /\ \E i \in 1..Len(edges) :
         edges[i].congested /\ edges[i].currentSpeed = ACCIDENT_SPEED

-----------------------------------------------------------------------------
(* Red lights (C20) *)

\* C20: in no vehicle tick does the edge index advance onto a next node whose
\* light is Red at that tick
C20_NeverEntersRed ==
    [][(TransitTick /\ NextIsRed) => carNodeIndex' = carNodeIndex]_vars

-----------------------------------------------------------------------------
(* The planner on k x k grids laid out and generated as in constants.ts, every  *)
(* edge with the same length, speed and limit, every light green.               *)

MaxGridSize == 3
GridSizes == 2..MaxGridSize

GridNodes(k) ==
    [id \in 1..(k * k) |->
        [x |-> PADDING + ((id - 1) % k) * SPACING_X,
         y |-> PADDING + ((id - 1) \div k) * SPACING_Y,
         lightStatus |-> "green"]]

\* [length (1/100 km), speed, limit] shared by all edges of one grid
UniformKinds ==
    {[length |-> l, speed |-> v, limit |-> m] :
        l \in {20, 88, 300}, v \in {5, 40, 60}, m \in {40, 60}}

uniformEdge(source, target, kind) ==
    [id |-> <<source, target>>, source |-> source, target |-> target,
     length |-> kind.length, limit |-> kind.limit, baseSpeed |-> kind.speed,
     currentSpeed |-> kind.speed, congested |-> FALSE]

\* the generation loop: for each node its right edge, then its down edge
RECURSIVE GridEdges(_, _, _)
GridEdges(k, kind, currentIndex) ==
    IF currentIndex > k * k THEN <<>>
    ELSE LET r == (currentIndex - 1) \div k
             c == (currentIndex - 1) % k
             right == IF c < k - 1
                      THEN <<uniformEdge(currentIndex, currentIndex + 1, kind)>> ELSE <<>>
             down == IF r < k - 1
                     THEN <<uniformEdge(currentIndex, currentIndex + k, kind)>> ELSE <<>>
         IN  right \o down \o GridEdges(k, kind, currentIndex + 1)

\* opposite corners, both diagonals, both directions
CornerQueries(k) ==
    {<<1, k * k>>, <<k * k, 1>>, <<k, k * k - k + 1>>, <<k * k - k + 1, k>>}

GridInit ==
    /\ \E k \in GridSizes :
         /\ nodes = GridNodes(k)
         /\ \E kind \in UniformKinds : edges = GridEdges(k, kind, 1)
         /\ \E q \in CornerQueries(k) : startNode = q[1] /\ endNode = q[2]
    /\ selectionMode = "null"
    /\ isPlaying = FALSE
    /\ isWaitingForLight = FALSE
    /\ penaltyWeight = DEFAULT_PENALTY
    /\ logs = <<>>
    /\ metrics = ZeroMetrics
    /\ currentPath = <<>>
    /\ estimatedTime = 0
    /\ carNodeIndex = 0
    /\ progressBetweenNodes = 0
    /\ pending = FALSE
    /\ planResult = NOT_CALLED
    /\ envTicks = 0
    /\ userOps = 0

GridNext == CallPlanner

SpecGrid == GridInit /\ [][GridNext]_vars

\* the side of the grid whose nodes the state holds (side * side nodes)
GridSide == CHOOSE k \in 1..(MaxGridSize + 1) : k * k = Cardinality(DOMAIN nodes)

\* C19: on a k x k grid with uniform edge cost the planner's path between opposite
\* corners has exactly 2 (k - 1) edges: 4 edges on the 3 x 3 grid
C19_ManhattanLength ==
    PlannerCalled =>
        /\ planResult # NULL
        /\ Len(planResult.path) - 1 = 2 * (GridSide - 1)
        /\ GridSide = 3 => Len(planResult.path) = 5

\* the planner has answered a corner-to-corner query on the 3 x 3 grid
C19_Witness ==
    /\ PlannerCalled /\ planResult # NULL
    /\ GridSide = 3 /\ Len(planResult.path) = 5
    /\ planResult.path[1] = startNode /\ planResult.path[5] = endNode

-----------------------------------------------------------------------------
(* Effects of an accepted reroute (C21) *)

\* C21: when a reroute is accepted the reroute count increases by exactly 1, the
\* estimated total time becomes elapsed time + the candidate's time, the committed path
\* becomes the nodes before the current index, unchanged, followed by the candidate
\* path; edge index, progress, elapsed time and distance traveled are unchanged
C21_AcceptedRerouteFrame ==
    [][(EvaluatingOther /\ ClaimedAccept(penaltyWeight)) =>
          /\ metrics'.pathChanges = metrics.pathChanges + 1
          /\ estimatedTime' = metrics.totalTime + Candidate.time
          /\ Len(currentPath') = carNodeIndex + Len(Candidate.path)
          /\ \A i \in 1..Len(currentPath') :
                currentPath'[i] = IF i <= carNodeIndex THEN currentPath[i]
                                  ELSE Candidate.path[i - carNodeIndex]
          /\ UNCHANGED <<carNodeIndex, progressBetweenNodes>>
          /\ metrics'.totalTime = metrics.totalTime
          /\ metrics'.distanceTraveled = metrics.distanceTraveled]_vars

\* a reroute was accepted after the first node: only a splice onto a traveled prefix
\* gives a committed path with more nodes than the map
C21_Witness ==
    /\ metrics.pathChanges = 1
    /\ carNodeIndex >= 1
    /\ Len(currentPath) > Cardinality(NodeIds)
    /\ estimatedTime > metrics.totalTime

-----------------------------------------------------------------------------
(* Arrival (C22) *)

\* the vehicle stands on the last node of a committed path of at least one edge
AtGoal == currentPath # <<>> /\ carNodeIndex = Len(currentPath) - 1 /\ carNodeIndex > 0

\* a vehicle tick that finds the index at the last node of the committed path
ArrivalTick ==
    /\ isPlaying /\ ~pending
    /\ carNodeIndex >= Len(currentPath) - 1
    /\ UNCHANGED <<userOps, envTicks>>

\* C22: arrival is terminal: the vehicle tick that finds the index at the last node of
\* the committed path stops the simulation, and the step that follows the stop at the
\* goal (no reset, setStart or setEnd) changes none of index, progress, elapsed time
C22_ArrivalTerminal ==
    [][/\ ArrivalTick => ~isPlaying'
       /\ (pending /\ ~isPlaying /\ AtGoal) =>
             /\ UNCHANGED <<carNodeIndex, progressBetweenNodes>>
             /\ metrics'.totalTime = metrics.totalTime]_vars

-----------------------------------------------------------------------------
(* Termination of a trip (C23).  The simulation is started once and never     *)
(* paused; driving ticks are not bounded, waiting ticks are modelled while     *)
(* the elapsed time is below MaxWaitTime (a vehicle that would wait longer     *)
(* stands still until the light changes).                                      *)

MaxWaitTime == 400

LiveStart == userOps = 0 /\ ~isPlaying /\ PlayButton

LiveVehicleTick ==
    /\ isPlaying /\ ~pending
    /\ IF carNodeIndex >= Len(currentPath) - 1
       THEN stopVehicle("Destination Reached", "success")
       ELSE LET u == pathAt(currentPath, carNodeIndex)
                v == pathAt(currentPath, carNodeIndex + 1)
                found == findEdge(edges, u, v)
            IN  IF found = <<>>
                THEN stopVehicle("Path connectivity lost", "error")
                ELSE IF redAhead(v) /\ nearIntersection(progressBetweenNodes)
                     THEN metrics.totalTime < MaxWaitTime /\ waitForLight
                     ELSE drive(found[1])
    /\ UNCHANGED <<edges, nodes, startNode, endNode, selectionMode, currentPath,
                   estimatedTime, penaltyWeight, planResult, envTicks, userOps>>

LiveNext ==
    \/ LiveStart
    \/ EnvironmentTick
    \/ PlanningEffect
    \/ LiveVehicleTick

\* the interval timer keeps firing, and React runs a scheduled effect: the planning
\* effect is enabled exactly when pending, so its weak fairness is []<>~pending
SpecLive ==
    /\ Init /\ [][LiveNext]_vars
    /\ WF_vars(LiveVehicleTick)
    /\ []<>(~pending)

\* every Red light is eventually toggled Green again
LightsFair == \A n \in NodeIds : []<>(nodes[n].lightStatus = "green")

-----------------------------------------------------------------------------
(* Accrual of time and distance (C24) *)

\* the vehicle is on an edge of the committed path: a tick neither declares the
\* arrival nor fails on a missing edge
InTransit ==
    /\ isPlaying /\ ~pending
    /\ carNodeIndex < Len(currentPath) - 1
    /\ findEdge(edges, pathAt(currentPath, carNodeIndex), NextNode) # <<>>

\* a step of the vehicle timer in transit (every other step counts a user operation or
\* an environment tick, or runs the pending effect)
InTransitTick == InTransit /\ UNCHANGED <<userOps, envTicks>>

WaitsAtLight == NextIsRed /\ nearIntersection(progressBetweenNodes)

\* C24 as claimed: every vehicle tick in transit, the ticks spent waiting at a red light
\* included, increases both elapsed time and distance traveled
C24_AsClaimed ==
    [][InTransitTick =>
          /\ metrics'.totalTime > metrics.totalTime
          /\ metrics'.distanceTraveled > metrics.distanceTraveled]_vars

\* C24: every vehicle tick in transit increases elapsed time; a driving tick adds 0.02
\* min and a positive distance, a tick spent waiting at a red light adds 0.05 min and
\* leaves distance traveled unchanged
C24_TimeAlwaysDistanceWhenDriving ==
    [][InTransitTick =>
          IF WaitsAtLight
          THEN /\ metrics'.totalTime = metrics.totalTime + WAIT_TIME
               /\ metrics'.distanceTraveled = metrics.distanceTraveled
          ELSE /\ metrics'.totalTime = metrics.totalTime + MOVE_TIME
               /\ metrics'.distanceTraveled > metrics.distanceTraveled]_vars

\* the vehicle has driven and has waited once at a red light
C24_Witness ==
    /\ isPlaying /\ isWaitingForLight /\ WaitsAtLight
    /\ metrics.distanceTraveled > 0
    /\ metrics.totalTime % MOVE_TIME = WAIT_TIME % MOVE_TIME

-----------------------------------------------------------------------------
(* Choice among open nodes of equal f-score (C25) *)

\* the iterations of the search for the query of the state
Iterations == iterations(searchStart(startNode, endNode, nodes), endNode, edges, nodes)

\* the positions in the open set that hold the minimum f-score
Lowest(st) ==
    {i \in 1..Len(st.open) :
        \A j \in 1..Len(st.open) : st.f[st.open[i]] <= st.f[st.open[j]]}

FirstLowest(st) == st.open[CHOOSE i \in Lowest(st) : \A j \in Lowest(st) : i <= j]
LastLowest(st) == st.open[CHOOSE i \in Lowest(st) : \A j \in Lowest(st) : i >= j]

\* an iteration in which several open nodes share the minimum f-score
Tied(st) == Cardinality(Lowest(st)) > 1

\* C25 as claimed: when several open nodes share the minimum f-score the planner
\* expands the one that comes first in the insertion order of the open set
C25_FirstFoundWins ==
    PlannerCalled =>
        \A i \in 1..Len(Iterations) :
            lowestF(Iterations[i].open, Iterations[i].f) = FirstLowest(Iterations[i])

\* C25: when several open nodes share the minimum f-score the planner expands the one
\* that comes last in the insertion order of the open set
C25_LastFoundWins ==
    PlannerCalled =>
        \A i \in 1..Len(Iterations) :
            lowestF(Iterations[i].open, Iterations[i].f) = LastLowest(Iterations[i])

\* the planner has answered a query in which two open nodes shared the minimum
C25_Witness ==
    /\ PlannerCalled /\ planResult # NULL
    /\ \E i \in 1..Len(Iterations) : Tied(Iterations[i])

-----------------------------------------------------------------------------
(* Vehicle position (C26) *)

\* C26: in every reachable state the progress within the current edge is in [0, 1),
\* and whenever the committed path is non-empty 0 <= index <= length(path) - 1
C26_PositionWellFormed ==
    /\ 0 <= progressBetweenNodes /\ progressBetweenNodes < ProgScale
    /\ currentPath # <<>> =>
          (0 <= carNodeIndex /\ carNodeIndex <= Len(currentPath) - 1)

\* the vehicle has just advanced onto the last node of a path of two edges or more
C26_Witness ==
    /\ isPlaying /\ ~pending
    /\ carNodeIndex >= 2 /\ carNodeIndex = Len(currentPath) - 1
    /\ progressBetweenNodes = 0

-----------------------------------------------------------------------------
(* Returned time against the cost of the returned path (C27) *)

\* the cost of a path recomputed edge by edge with the cost formula, the turn penalty
\* of an edge taken relative to the edge of the same path before it
RECURSIVE pathCost(_, _, _, _)
pathCost(path, i, eds, nds) ==
    IF i >= Len(path) THEN 0
    ELSE LET found == findEdge(eds, path[i], path[i + 1])
             prevId == IF i = 1 THEN 0 ELSE path[i - 1]
         IN  edgeCost(found[1], prevId, path[i], path[i + 1], nds)
             + pathCost(path, i + 1, eds, nds)

\* C27: the time returned by findBestPath equals the cost of the returned path
\* recomputed edge by edge (travel time + red-light penalty of the entered node + turn
\* penalty relative to the previous edge of that path, times the road-level factor)
C27_TimeIsPathCost ==
    (PlannerCalled /\ planResult # NULL) =>
        planResult.time = pathCost(planResult.path, 1, edges, nodes)

\* the heuristic is consistent: over no edge, in either direction, does it drop by more
\* than the edge costs without a turn
HeuristicConsistent(goal, eds, nds) ==
    \A e \in edgeList(eds) :
        /\ heuristic(e.source, goal, nds)
              <= edgeCost(e, 0, e.source, e.target, nds) + heuristic(e.target, goal, nds)
        /\ heuristic(e.target, goal, nds)
              <= edgeCost(e, 0, e.target, e.source, nds) + heuristic(e.source, goal, nds)

\* C27 amended: the same, on the graphs where the heuristic is consistent (as on the
\* generated maps, whose edges are as long as the pixels between their ends)
C27_TimeIsPathCostWhenConsistent ==
    (/\ PlannerCalled /\ planResult # NULL
     /\ HeuristicConsistent(endNode, edges, nodes)) =>
        planResult.time = pathCost(planResult.path, 1, edges, nodes)

\* on a consistent graph the search has given a node of the returned path a second
\* predecessor, and the returned path has a turn
C27_Witness ==
    /\ PlannerCalled /\ planResult # NULL
    /\ HeuristicConsistent(endNode, edges, nodes)
    /\ Len(planResult.path) >= 3
    /\ \E i, j \in 1..Len(Iterations) : \E n \in DOMAIN nodes :
         /\ i < j /\ InSeq(n, planResult.path)
         /\ Iterations[i].came[n] # 0
         /\ Iterations[j].came[n] # Iterations[i].came[n]
    /\ \E k \in 2..(Len(planResult.path) - 1) :
         getDirection(planResult.path[k - 1], planResult.path[k], nodes)
            # getDirection(planResult.path[k], planResult.path[k + 1], nodes)

-----------------------------------------------------------------------------
(* Connectivity of the committed path (C28) *)

\* C28: in every reachable state each consecutive pair of nodes of the committed path
\* is joined by an edge of the graph, and no vehicle tick finds the edge of the
\* current leg missing (the "Path connectivity lost" stop)
C28_PathConnected ==
    /\ \A i \in 1..(Len(currentPath) - 1) :
          Joined(currentPath[i], currentPath[i + 1], edges)
    /\ (isPlaying /\ ~pending /\ carNodeIndex < Len(currentPath) - 1) =>
          findEdge(edges, pathAt(currentPath, carNodeIndex), NextNode) # <<>>

\* the vehicle drives on a path spliced onto a traveled prefix, beyond the junction
C28_Witness ==
    /\ InTransit
    /\ metrics.pathChanges >= 1
    /\ carNodeIndex >= 1
    /\ \E i \in 1..carNodeIndex : currentPath[i] = NextNode

-----------------------------------------------------------------------------
(* Pause and restart (C29) *)

\* C29: pause followed by start is a resume, so the position of a playing vehicle is
\* consistent with its elapsed time: once time has elapsed (every tick that adds time
\* at the start of an edge also moves the vehicle) it is past the start of its path
C29_PauseThenStartResumes ==
    (isPlaying /\ metrics.totalTime > 0) =>
        (carNodeIndex > 0 \/ progressBetweenNodes > 0)

-----------------------------------------------------------------------------
(* Declaration of the arrival (C30) *)

\* C30: the arrival stop is declared only when the committed path is non-empty and the
\* vehicle's current node is the requested end node, never for an empty path or for a
\* stale path kept after a replan that found no route
C30_ArrivalOnlyAtEnd ==
    [][(ArrivalTick /\ ~isPlaying') =>
          /\ currentPath # <<>>
          /\ pathAt(currentPath, carNodeIndex) = endNode]_vars

====
